---- MODULE Spec2Model ----
(***************************************************************************)
(* A model of export.py: the Slack exporter's pipeline                     *)
(*   fetch_user_map -> fetch_group_map -> fetch_all_channels -> for each   *)
(*   selected conversation: fetch_channel_structured (history paging, then *)
(*   one fetch_thread per thread parent) -> write_channel.                 *)
(*                                                                         *)
(* Texts, identifiers and names are sequences of text atoms.  An atom is   *)
(* one character, except that a run of characters no regular expression of *)
(* resolve_text can match inside (a lower-case word) and the literal       *)
(* "!subteam^" are written as one atom.                                    *)
(* Timestamps are counted in ticks of 1/TicksPerSec second, so that        *)
(* float(ts) orders them and fmt_ts truncates them to the second.          *)
(***************************************************************************)
EXTENDS Integers, Sequences, FiniteSets, TLC

VARIABLES
    pc,            \* where main (and the fetch it is in) stands
    last,          \* endpoint and kind of the most recent API answer
    srv,           \* the pages the server holds for the listing being fetched
    cursor,        \* the local cursor of the running fetch (0 is None)
    rl,            \* rate-limited answers in a row to the current call
    wait,          \* the local wait: the last rate-limit sleep, 0 before any
    backoff,       \* fetch_user_map's backoff
    user_map,      \* m of fetch_user_map, then main's user_map
    group_map,     \* main's group_map
    all_channels,  \* channels of fetch_all_channels, then main's all_channels
    chIdx,         \* how many of the selected conversations are exported
    returned,      \* the messages the history endpoint returned, this channel
    fetched,       \* the thread keys fetch_thread was called for, in order
    tops,          \* tops of fetch_channel_structured
    threads,       \* threads of fetch_channel_structured: an ordered dict
    thrIdx,        \* how many thread keys have been fetched
    replies,       \* replies of the running fetch_thread
    save_unresolved, \* args.save_unresolved
    out,           \* the lines of the file written for this conversation
    outRaw,        \* the lines of its copy in the unresolved directory
    written,       \* the paths written so far, in order
    txt,           \* resolve_text alone: its text argument, then its result
    txt0           \* resolve_text alone: the text argument as given

vars == << pc, last, srv, cursor, rl, wait, backoff, user_map, group_map,
           all_channels, chIdx, returned, fetched, tops, threads, thrIdx,
           replies, save_unresolved, out, outRaw, written, txt, txt0 >>

----------------------------------------------------------------------------
(* Bounds *)

\* the most pages a listing is served in
MaxPages == 2
\* the most rate-limited answers in a row to one call
MaxRateLimits == 4
\* the most atoms of a text given to resolve_text alone
MaxAtoms == 5

----------------------------------------------------------------------------
(* Sequences and dicts *)

Min(a, b) == IF a <= b THEN a ELSE b

Range(s) == { s[i] : i \in 1..Len(s) }

Injective(s) == \A i, j \in 1..Len(s) : s[i] = s[j] => i = j

\* what a server may hold for a listing: 1..MaxPages pages of Pool, none twice
Listings(Pool) ==
    { s \in UNION { [1..k -> Pool] : k \in 1..MaxPages } : Injective(s) }

\* dict.get(k, d) on a dict held as a function
GetOr(map, k, d) == IF k \in DOMAIN map THEN map[k] ELSE d

\* an empty dict
EmptyMap == [ k \in {} |-> << >> ]

\* a field that a JSON object does not have
None == << >>

----------------------------------------------------------------------------
(* The API: cursors, answers, rate limiting *)

\* the page the server answers a call with: cursor c stands before page c + 1
ServerPage(pages, c) == pages[c + 1]

\* response_metadata.next_cursor of that answer: 0 (none) on the last page
NextCursor(pages, c) == IF c + 1 < Len(pages) THEN c + 1 ELSE 0

\* the Retry-After header of a rate-limited answer: absent (0), or seconds
RetryAfterHeaders == { 0, 7 }

\* int(e.response.headers.get("Retry-After", default))
RetryWait(header, default) == IF header = 0 THEN default ELSE header

\* an answer of the API as the program sees it: the endpoint, what it was (a
\* page with a next cursor, the last page, rate-limited, another error) and
\* the Retry-After header (0: none)
Answer(ep, kind, retry_after) ==
    [ ep |-> ep, kind |-> kind, retry_after |-> retry_after ]

\* the default sleep of fetch_thread and fetch_channel_structured
DefaultWait == 30

----------------------------------------------------------------------------
(* fetch_user_map *)

BackoffStart == 10
BackoffCap == 120

NextBackoff_NoCap(b) == b * 2

\* backoff = min(backoff * 2, 120)
NextBackoff(b) == Min(b * 2, BackoffCap)

u1 == [ id |-> <<"U", "1">>, real_name |-> <<"bob">>, name |-> <<"b">> ]
u2 == [ id |-> <<"W", "2">>, real_name |-> None,      name |-> <<"al">> ]
u3 == [ id |-> <<"U", "3">>, real_name |-> None,      name |-> None ]

UserPagePool == { <<u1>>, <<u2, u3>> }

\* u.get("real_name") or u.get("name") or u["id"]
UserDisplay(u) ==
    IF u.real_name # None THEN u.real_name
    ELSE IF u.name # None THEN u.name ELSE u.id

\* for u in r["members"]: m[u["id"]] = ...
RECURSIVE AddUsers(_, _)
AddUsers(m, members) ==
    IF members = << >> THEN m
    ELSE LET u == Head(members)
         IN  AddUsers([ k \in DOMAIN m \cup { u.id } |->
                          IF k = u.id THEN UserDisplay(u) ELSE m[k] ],
                      Tail(members))

EnterUsers ==
    /\ pc = "start"
    /\ pc' = "users"
    /\ user_map' = EmptyMap
    /\ cursor' = 0
    /\ backoff' = BackoffStart
    /\ wait' = 0
    /\ rl' = 0
    /\ srv' \in Listings(UserPagePool)
    /\ last' = Answer("users", "none", 0)
    /\ UNCHANGED << group_map, all_channels, chIdx, returned, fetched, tops,
                    threads, thrIdx, replies, save_unresolved, out, outRaw,
                    written, txt, txt0 >>

UsersPage ==
    /\ pc = "users"
    /\ LET next == NextCursor(srv, cursor)
       IN  /\ user_map' = AddUsers(user_map, ServerPage(srv, cursor))
           /\ cursor' = next
           /\ IF next = 0
                THEN /\ pc' = "groups"
                     /\ last' = Answer("users", "lastpage", 0)
                     /\ UNCHANGED backoff
                ELSE /\ pc' = pc
                     /\ last' = Answer("users", "page", 0)
                     /\ backoff' = BackoffStart
    /\ rl' = 0
    /\ wait' = 0
    /\ UNCHANGED << srv, group_map, all_channels, chIdx, returned, fetched,
                    tops, threads, thrIdx, replies, save_unresolved, out,
                    outRaw, written, txt, txt0 >>

UsersRateLimited ==
    /\ pc = "users"
    /\ rl < MaxRateLimits
    /\ \E h \in RetryAfterHeaders :
          /\ wait' = RetryWait(h, backoff)
          /\ last' = Answer("users", "ratelimited", h)
    /\ backoff' = NextBackoff(backoff)
    /\ rl' = rl + 1
    /\ UNCHANGED << pc, srv, cursor, user_map, group_map, all_channels, chIdx,
                    returned, fetched, tops, threads, thrIdx, replies,
                    save_unresolved, out, outRaw, written, txt, txt0 >>

UsersError ==
    /\ pc = "users"
    /\ pc' = "groups"
    /\ last' = Answer("users", "error", 0)
    /\ rl' = 0
    /\ wait' = 0
    /\ UNCHANGED << srv, cursor, backoff, user_map, group_map, all_channels,
                    chIdx, returned, fetched, tops, threads, thrIdx, replies,
                    save_unresolved, out, outRaw, written, txt, txt0 >>

----------------------------------------------------------------------------
(* fetch_group_map *)

g1 == [ id |-> <<"S", "1">>, name |-> <<"devs">>, handle |-> <<"d">> ]
g2 == [ id |-> <<"S", "2">>, name |-> None,       handle |-> None ]

GroupLists == { <<g1, g2>> }

\* g.get("name") or g.get("handle") or g["id"]
GroupDisplay(g) ==
    IF g.name # None THEN g.name
    ELSE IF g.handle # None THEN g.handle ELSE g.id

\* {g["id"]: ... for g in r["usergroups"]}
GroupDict(groups) ==
    [ k \in { g.id : g \in Range(groups) } |->
        LET i == CHOOSE j \in 1..Len(groups) :
                     /\ groups[j].id = k
                     /\ \A n \in (j + 1)..Len(groups) : groups[n].id # k
        IN  GroupDisplay(groups[i]) ]

\* fetch_user_map has returned: its locals are gone
UsersLocalsGone ==
    /\ srv' = << >>
    /\ cursor' = 0
    /\ rl' = 0
    /\ wait' = 0
    /\ backoff' = BackoffStart

GroupsOk ==
    /\ pc = "groups"
    /\ pc' = "enter_channels"
    /\ \E groups \in GroupLists : group_map' = GroupDict(groups)
    /\ last' = Answer("groups", "lastpage", 0)
    /\ UsersLocalsGone
    /\ UNCHANGED << user_map, all_channels, chIdx, returned, fetched, tops,
                    threads, thrIdx, replies, save_unresolved, out, outRaw,
                    written, txt, txt0 >>

GroupsError ==
    /\ pc = "groups"
    /\ pc' = "enter_channels"
    /\ group_map' = EmptyMap
    /\ \E kind \in { "ratelimited", "error" } :
          last' = Answer("groups", kind, 0)
    /\ UsersLocalsGone
    /\ UNCHANGED << user_map, all_channels, chIdx, returned, fetched, tops,
                    threads, thrIdx, replies, save_unresolved, out, outRaw,
                    written, txt, txt0 >>

----------------------------------------------------------------------------
(* fetch_all_channels *)

c1 == [ id |-> <<"C", "1">>, name |-> <<"general">>, is_im |-> FALSE,
        user |-> None ]
c2 == [ id |-> <<"D", "2">>, name |-> None, is_im |-> TRUE,
        user |-> <<"U", "1">> ]

ChannelPagePool == { <<c1>>, <<c2>> }

EnterChannels ==
    /\ pc = "enter_channels"
    /\ pc' = "channels"
    /\ all_channels' = << >>
    /\ cursor' = 0
    /\ rl' = 0
    /\ srv' \in Listings(ChannelPagePool)
    /\ last' = Answer("channels", "none", 0)
    /\ UNCHANGED << wait, backoff, user_map, group_map, chIdx, returned,
                    fetched, tops, threads, thrIdx, replies, save_unresolved,
                    out, outRaw, written, txt, txt0 >>

ChannelsPage ==
    /\ pc = "channels"
    /\ LET next == NextCursor(srv, cursor)
       IN  /\ all_channels' = all_channels \o ServerPage(srv, cursor)
           /\ cursor' = next
           /\ IF next = 0
                THEN /\ pc' = "export"
                     /\ last' = Answer("channels", "lastpage", 0)
                ELSE /\ pc' = pc
                     /\ last' = Answer("channels", "page", 0)
    /\ UNCHANGED << srv, rl, wait, backoff, user_map, group_map, chIdx,
                    returned, fetched, tops, threads, thrIdx, replies,
                    save_unresolved, out, outRaw, written, txt, txt0 >>

\* no try around conversations_list: a SlackApiError leaves fetch_all_channels
\* and main, and ends the program
ChannelsRaise ==
    /\ pc = "channels"
    /\ pc' = "crashed"
    /\ \E kind \in { "ratelimited", "error" } :
          last' = Answer("channels", kind, 0)
    /\ UNCHANGED << srv, cursor, rl, wait, backoff, user_map, group_map,
                    all_channels, chIdx, returned, fetched, tops, threads,
                    thrIdx, replies, save_unresolved, out, outRaw, written,
                    txt, txt0 >>

\* main run with --all, or with an empty answer to the prompt:
\* selected = all_channels
selected == all_channels

----------------------------------------------------------------------------
(* Messages *)

TicksPerSec == 2

\* start_ts and end_ts of main, in seconds
StartTs == 1
EndTs == 4

NoSubtype == ""

Msg(ts, thread_ts, subtype, user, text) ==
    [ ts |-> ts, thread_ts |-> thread_ts, subtype |-> subtype,
      user |-> user, text |-> text ]

\* a thread parent, a bot message with a thread, a plain message, a broadcast
\* reply, a reply, a second thread parent, its reply, and a message just after
\* the end of the range
mP == Msg(2, 2, NoSubtype, <<"U", "1">>, <<"hi", "<", "@", "W", "2", ">">>)
mJ == Msg(3, 3, "bot_message", None, <<"deployed">>)
mM == Msg(4, 0, NoSubtype, <<"U", "9">>, <<"<", "!subteam^", "S", "1", ">">>)
mB == Msg(5, 2, "thread_broadcast", <<"W", "2">>, <<"<", "U", "3", ">">>)
mR == Msg(6, 2, NoSubtype, <<"U", "1">>, <<"ok", "<", "@", "U", "9", ">">>)
mQ == Msg(7, 7, NoSubtype, None, <<"q">>)
mS == Msg(8, 7, NoSubtype, <<"U", "3">>, <<"<", "!subteam^", "S", "9", ">">>)
mO == Msg(9, 0, NoSubtype, <<"U", "1">>, <<"late">>)

\* conversations.history answers newest first
HistoryPagePool == { <<mM, mP>>, <<mB, mJ>>, <<mO, mQ>> }

\* conversations.replies answers every page with the parent first
ReplyPagePool(ts) ==
    IF ts = mP.ts THEN { <<mP, mR>>, <<mP, mB>> }
    ELSE IF ts = mQ.ts THEN { <<mQ, mS>> }
    ELSE IF ts = mJ.ts THEN { <<mJ>> } ELSE { << >> }

\* float(x["ts"]) as a sort key and in the range test
TsKey(m) == m.ts

\* datetime.fromtimestamp(float(ts)).strftime(...): the second ts lies in
fmt_ts(ts) == ts \div TicksPerSec

IsThreadParent_Reply(m) == m.thread_ts # 0 /\ m.ts # m.thread_ts

\* "thread_ts" in m and m["ts"] == m["thread_ts"]
IsThreadParent(m) == m.thread_ts # 0 /\ m.ts = m.thread_ts

Exported_NoBroadcast(m, start_ts, end_ts) ==
    /\ m.subtype = NoSubtype
    /\ start_ts * TicksPerSec <= TsKey(m)
    /\ TsKey(m) <= end_ts * TicksPerSec

\* not ("subtype" in m and m["subtype"] != "thread_broadcast"), and
\* start_ts <= tsf <= end_ts
Exported(m, start_ts, end_ts) ==
    /\ ~ (m.subtype # NoSubtype /\ m.subtype # "thread_broadcast")
    /\ start_ts * TicksPerSec <= TsKey(m)
    /\ TsKey(m) <= end_ts * TicksPerSec

(* An ordered dict: a sequence of entries [ts, replies], keys in the order of
   their first insertion. *)
DictHas(d, k) == \E i \in 1..Len(d) : d[i].ts = k

DictGet(d, k, default) ==
    IF DictHas(d, k) THEN d[CHOOSE i \in 1..Len(d) : d[i].ts = k].replies
    ELSE default

DictSet(d, k, v) ==
    IF DictHas(d, k)
      THEN [ i \in 1..Len(d) |-> IF d[i].ts = k THEN [ ts |-> k, replies |-> v ]
                                                 ELSE d[i] ]
      ELSE Append(d, [ ts |-> k, replies |-> v ])

\* the for loop over r["messages"], on tops
RECURSIVE AddTops(_, _)
AddTops(t, msgs) ==
    IF msgs = << >> THEN t
    ELSE LET m == Head(msgs)
         IN  AddTops(IF Exported(m, StartTs, EndTs) THEN Append(t, m) ELSE t,
                     Tail(msgs))

\* the for loop over r["messages"], on threads
RECURSIVE AddThreads(_, _)
AddThreads(d, msgs) ==
    IF msgs = << >> THEN d
    ELSE LET m == Head(msgs)
         IN  AddThreads(IF Exported(m, StartTs, EndTs) /\ IsThreadParent(m)
                          THEN DictSet(d, m.ts, << >>) ELSE d,
                        Tail(msgs))

\* r.get("messages", [])[1:]
ThreadReplies(messages) ==
    IF messages = << >> THEN << >> ELSE Tail(messages)

----------------------------------------------------------------------------
(* fetch_channel_structured *)

\* main's loop takes the next conversation: the names of the last iteration
\* are rebound, and the file written for it is closed
EnterHistory ==
    /\ pc = "export"
    /\ chIdx < Len(selected)
    /\ pc' = "history"
    /\ cursor' = 0
    /\ rl' = 0
    /\ wait' = 0
    /\ tops' = << >>
    /\ threads' = << >>
    /\ returned' = << >>
    /\ fetched' = << >>
    /\ replies' = << >>
    /\ thrIdx' = 0
    /\ out' = << >>
    /\ outRaw' = << >>
    /\ srv' \in Listings(HistoryPagePool)
    /\ last' = Answer("history", "none", 0)
    /\ UNCHANGED << backoff, user_map, group_map, all_channels, chIdx,
                    save_unresolved, written, txt, txt0 >>

HistoryPage ==
    /\ pc = "history"
    /\ LET next == NextCursor(srv, cursor)
           r == ServerPage(srv, cursor)
       IN  /\ tops' = AddTops(tops, r)
           /\ threads' = AddThreads(threads, r)
           /\ returned' = returned \o r
           /\ cursor' = next
           /\ IF next = 0
                THEN /\ pc' = "threads"
                     /\ last' = Answer("history", "lastpage", 0)
                ELSE /\ pc' = pc
                     /\ last' = Answer("history", "page", 0)
    /\ rl' = 0
    /\ wait' = 0
    /\ UNCHANGED << srv, backoff, user_map, group_map, all_channels, chIdx,
                    fetched, thrIdx, replies, save_unresolved, out, outRaw,
                    written, txt, txt0 >>

HistoryRateLimited ==
    /\ pc = "history"
    /\ rl < MaxRateLimits
    /\ \E h \in RetryAfterHeaders :
          /\ wait' = RetryWait(h, DefaultWait)
          /\ last' = Answer("history", "ratelimited", h)
    /\ rl' = rl + 1
    /\ UNCHANGED << pc, srv, cursor, backoff, user_map, group_map,
                    all_channels, chIdx, returned, fetched, tops, threads,
                    thrIdx, replies, save_unresolved, out, outRaw, written,
                    txt, txt0 >>

HistoryError ==
    /\ pc = "history"
    /\ pc' = "threads"
    /\ last' = Answer("history", "error", 0)
    /\ rl' = 0
    /\ wait' = 0
    /\ UNCHANGED << srv, cursor, backoff, user_map, group_map, all_channels,
                    chIdx, returned, fetched, tops, threads, thrIdx, replies,
                    save_unresolved, out, outRaw, written, txt, txt0 >>

----------------------------------------------------------------------------
(* fetch_thread, called for the keys of threads in their order *)

EnterThread ==
    /\ pc = "threads"
    /\ thrIdx < Len(threads)
    /\ pc' = "thread"
    /\ replies' = << >>
    /\ cursor' = 0
    /\ rl' = 0
    /\ wait' = 0
    /\ srv' \in Listings(ReplyPagePool(threads[thrIdx + 1].ts))
    /\ fetched' = Append(fetched, threads[thrIdx + 1].ts)
    /\ last' = Answer("replies", "none", 0)
    /\ UNCHANGED << backoff, user_map, group_map, all_channels, chIdx,
                    returned, tops, threads, thrIdx, save_unresolved, out,
                    outRaw, written, txt, txt0 >>

\* return replies; threads[ts] = ...
ThreadReturns(result) ==
    /\ threads' = DictSet(threads, threads[thrIdx + 1].ts, result)
    /\ thrIdx' = thrIdx + 1
    /\ pc' = "threads"

ThreadPage ==
    /\ pc = "thread"
    /\ LET next == NextCursor(srv, cursor)
       IN  /\ replies' = replies \o ThreadReplies(ServerPage(srv, cursor))
           /\ cursor' = next
           /\ IF next = 0
                THEN /\ ThreadReturns(replies')
                     /\ last' = Answer("replies", "lastpage", 0)
                ELSE /\ UNCHANGED << pc, threads, thrIdx >>
                     /\ last' = Answer("replies", "page", 0)
    /\ rl' = 0
    /\ wait' = 0
    /\ UNCHANGED << srv, backoff, user_map, group_map, all_channels, chIdx,
                    returned, fetched, tops, save_unresolved, out, outRaw,
                    written, txt, txt0 >>

ThreadRateLimited ==
    /\ pc = "thread"
    /\ rl < MaxRateLimits
    /\ \E h \in RetryAfterHeaders :
          /\ wait' = RetryWait(h, DefaultWait)
          /\ last' = Answer("replies", "ratelimited", h)
    /\ rl' = rl + 1
    /\ UNCHANGED << pc, srv, cursor, backoff, user_map, group_map,
                    all_channels, chIdx, returned, fetched, tops, threads,
                    thrIdx, replies, save_unresolved, out, outRaw, written,
                    txt, txt0 >>

ThreadError ==
    /\ pc = "thread"
    /\ ThreadReturns(replies)
    /\ last' = Answer("replies", "error", 0)
    /\ rl' = 0
    /\ wait' = 0
    /\ UNCHANGED << srv, cursor, backoff, user_map, group_map, all_channels,
                    chIdx, returned, fetched, tops, replies, save_unresolved,
                    out, outRaw, written, txt, txt0 >>

\* the loop over threads is over: return tops, threads
ReturnStructured ==
    /\ pc = "threads"
    /\ thrIdx = Len(threads)
    /\ pc' = "write"
    /\ UNCHANGED << last, srv, cursor, rl, wait, backoff, user_map, group_map,
                    all_channels, chIdx, returned, fetched, tops, threads,
                    thrIdx, replies, save_unresolved, out, outRaw, written,
                    txt, txt0 >>

----------------------------------------------------------------------------
(* resolve_text *)

\* the atoms [A-Z0-9] matches
IdChars == { "U", "W", "S", "1", "2", "3", "9" }

\* the index of the last atom of the run of [A-Z0-9] starting at i (i - 1: none)
RECURSIVE RunEnd(_, _)
RunEnd(t, i) ==
    IF i <= Len(t) /\ t[i] \in IdChars THEN RunEnd(t, i + 1) ELSE i - 1

(* A match at i of  prefix ([heads][A-Z0-9]+) ">"  (heads empty: no first
   class), as [from, to] of the group, to = 0 when there is no match at i.
   The run is greedy and ">" is not in its class, so no shorter run matches. *)
MatchAt(t, i, prefix, heads) ==
    LET g == i + Len(prefix)
        run == IF heads = {} THEN g ELSE g + 1
        e == RunEnd(t, run)
        ok == /\ g <= Len(t)
              /\ \A k \in 1..Len(prefix) : t[i + k - 1] = prefix[k]
              /\ heads # {} => t[g] \in heads
              /\ e >= run
              /\ e + 1 <= Len(t)
              /\ t[e + 1] = ">"
    IN  IF ok THEN [ from |-> g, to |-> e ] ELSE [ from |-> g, to |-> 0 ]

MentionName_Unknown(map, id) == GetOr(map, id, <<"unknown">>)

\* map.get(m.group(1), m.group(1))
MentionName(map, id) == GetOr(map, id, id)

\* re.sub: the leftmost matches, left to right, none overlapping
RECURSIVE Sub(_, _, _, _, _, _, _)
Sub(t, i, prefix, heads, open, close, map) ==
    IF i > Len(t) THEN << >>
    ELSE LET m == MatchAt(t, i, prefix, heads)
         IN  IF m.to = 0
               THEN << t[i] >> \o Sub(t, i + 1, prefix, heads, open, close, map)
               ELSE open \o MentionName(map, SubSeq(t, m.from, m.to)) \o close
                    \o Sub(t, m.to + 2, prefix, heads, open, close, map)

resolve_text(t, users, groups) ==
    LET a == Sub(t, 1, <<"<", "@">>, { "U", "W" }, <<"@">>, << >>, users)
        b == Sub(a, 1, <<"<">>, { "U" }, <<"<">>, <<">">>, users)
    IN  Sub(b, 1, <<"<", "!subteam^">>, {}, <<"@">>, << >>, groups)

----------------------------------------------------------------------------
(* write_channel *)

\* sorted(..., key=lambda x: float(x["ts"])): a stable insertion sort
RECURSIVE Insert(_, _)
Insert(sorted, m) ==
    IF sorted = << >> THEN << m >>
    ELSE IF TsKey(m) < TsKey(sorted[Len(sorted)])
           THEN Append(Insert(SubSeq(sorted, 1, Len(sorted) - 1), m),
                       sorted[Len(sorted)])
           ELSE Append(sorted, m)

RECURSIVE Sorted(_)
Sorted(msgs) ==
    IF msgs = << >> THEN << >>
    ELSE Insert(Sorted(SubSeq(msgs, 1, Len(msgs) - 1)), msgs[Len(msgs)])

SortByTs_Unsorted(msgs) == msgs

SortByTs(msgs) == Sorted(msgs)

SortReplies_Unsorted(msgs) == msgs

\* the sort of line 168
SortReplies(msgs) == Sorted(msgs)

(* One written line: whether it is indented with the reply arrow, the
   formatted time, the author and the text; ts is the message it is for. *)
Line(m, reply, resolve, users, groups) ==
    [ reply |-> reply,
      stamp |-> fmt_ts(m.ts),
      author |-> GetOr(users, m.user, <<"unknown">>),
      text |-> IF resolve THEN resolve_text(m.text, users, groups) ELSE m.text,
      ts |-> m.ts ]

RECURSIVE Lines(_, _, _, _, _)
Lines(msgs, reply, resolve, users, groups) ==
    IF msgs = << >> THEN << >>
    ELSE << Line(Head(msgs), reply, resolve, users, groups) >>
         \o Lines(Tail(msgs), reply, resolve, users, groups)

RECURSIVE WriteFrom(_, _, _, _, _)
WriteFrom(msgs, thr, resolve, users, groups) ==
    IF msgs = << >> THEN << >>
    ELSE LET m == Head(msgs)
         IN  << Line(m, FALSE, resolve, users, groups) >>
             \o (IF IsThreadParent(m)
                   THEN Lines(SortReplies(DictGet(thr, m.ts, << >>)), TRUE,
                              resolve, users, groups)
                   ELSE << >>)
             \o WriteFrom(Tail(msgs), thr, resolve, users, groups)

write_channel(messages, thr, resolve, users, groups) ==
    WriteFrom(SortByTs(messages), thr, resolve, users, groups)

\* "".join(c if c.isalnum() or c in "-_." else "_" for c in name)
safe_name(name) ==
    [ i \in 1..Len(name) |->
        IF name[i] \in { "<", ">", "@", "!subteam^", " " } THEN "_"
        ELSE name[i] ]

\* base of main
BaseName(ch, users) ==
    IF ch.is_im THEN <<"dm-">> \o safe_name(GetOr(users, ch.user, ch.id))
    ELSE safe_name(IF ch.name # None THEN ch.name ELSE ch.id)

\* out_dir / f"{base}.txt" and unresolved_dir / f"{base}.txt"
Path(dir, base) == [ dir |-> dir, base |-> base ]

WriteChannel ==
    /\ pc = "write"
    /\ pc' = "export"
    /\ out' = write_channel(tops, threads, TRUE, user_map, group_map)
    /\ LET base == BaseName(selected[chIdx + 1], user_map)
       IN  IF save_unresolved
             THEN /\ outRaw' = write_channel(tops, threads, FALSE, user_map,
                                              group_map)
                  /\ written' = written \o << Path("output", base),
                                             Path("unresolved", base) >>
             ELSE /\ outRaw' = << >>
                  /\ written' = Append(written, Path("output", base))
    /\ chIdx' = chIdx + 1
    /\ UNCHANGED << last, srv, cursor, rl, wait, backoff, user_map, group_map,
                    all_channels, returned, fetched, tops, threads, thrIdx,
                    replies, save_unresolved, txt, txt0 >>

Done ==
    /\ pc = "export"
    /\ chIdx = Len(selected)
    /\ pc' = "done"
    /\ UNCHANGED << last, srv, cursor, rl, wait, backoff, user_map, group_map,
                    all_channels, chIdx, returned, fetched, tops, threads,
                    thrIdx, replies, save_unresolved, out, outRaw, written,
                    txt, txt0 >>

----------------------------------------------------------------------------
(* The program *)

Init ==
    /\ pc = "start"
    /\ last = Answer("none", "none", 0)
    /\ srv = << >>
    /\ cursor = 0
    /\ rl = 0
    /\ wait = 0
    /\ backoff = BackoffStart
    /\ user_map = EmptyMap
    /\ group_map = EmptyMap
    /\ all_channels = << >>
    /\ chIdx = 0
    /\ returned = << >>
    /\ fetched = << >>
    /\ tops = << >>
    /\ threads = << >>
    /\ thrIdx = 0
    /\ replies = << >>
    /\ out = << >>
    /\ outRaw = << >>
    /\ save_unresolved \in BOOLEAN
    /\ written = << >>
    /\ txt = << >>
    /\ txt0 = << >>

Next ==
    \/ EnterUsers \/ UsersPage \/ UsersRateLimited \/ UsersError
    \/ GroupsOk \/ GroupsError
    \/ EnterChannels \/ ChannelsPage \/ ChannelsRaise
    \/ EnterHistory \/ HistoryPage \/ HistoryRateLimited \/ HistoryError
    \/ EnterThread \/ ThreadPage \/ ThreadRateLimited \/ ThreadError
    \/ ReturnStructured \/ WriteChannel \/ Done

Spec == Init /\ [][Next]_vars

\* the script runs on until it ends: a step that can be taken is taken
FairSpec == Spec /\ WF_vars(Next)

----------------------------------------------------------------------------
(* resolve_text alone, on any text of at most MaxAtoms atoms *)

TextAtoms == { "<", ">", "@", "!subteam^", "U", "W", "1" }

Texts == UNION { [1..n -> TextAtoms] : n \in 0..MaxAtoms }

\* identifier maps that know U1 and W1, and the group 1, and nothing else
KnownUsers == [ k \in { <<"U", "1">>, <<"W", "1">> } |-> <<"bob">> ]
KnownGroups == [ k \in { <<"1">> } |-> <<"devs">> ]

ResolveInit ==
    /\ pc = "resolve"
    /\ txt \in Texts
    /\ txt0 = txt
    /\ user_map = KnownUsers
    /\ group_map = KnownGroups
    /\ last = Answer("none", "none", 0)
    /\ srv = << >>
    /\ cursor = 0
    /\ rl = 0
    /\ wait = 0
    /\ backoff = BackoffStart
    /\ all_channels = << >>
    /\ chIdx = 0
    /\ returned = << >>
    /\ fetched = << >>
    /\ tops = << >>
    /\ threads = << >>
    /\ thrIdx = 0
    /\ replies = << >>
    /\ save_unresolved = FALSE
    /\ out = << >>
    /\ outRaw = << >>
    /\ written = << >>

Resolve ==
    /\ pc = "resolve"
    /\ pc' = "resolved"
    /\ txt' = resolve_text(txt, user_map, group_map)
    /\ UNCHANGED << last, srv, cursor, rl, wait, backoff, user_map, group_map,
                    all_channels, chIdx, returned, fetched, tops, threads,
                    thrIdx, replies, save_unresolved, out, outRaw, written,
                    txt0 >>

ResolveSpec == ResolveInit /\ [][Resolve]_vars

----------------------------------------------------------------------------
(* Properties *)

PaginatedFetches == { "users", "channels", "history", "replies" }

\* C1: in every paginated fetch a rate-limited answer is followed by a sleep
\* of the Retry-After value (or the default) and a retry of the same call: the
\* fetch goes on with the same cursor and the items accumulated so far.
C1_RateLimitRetried ==
    [][ (last'.ep \in PaginatedFetches /\ last'.kind = "ratelimited")
          => /\ pc' = pc
             /\ cursor' = cursor
             /\ << user_map, all_channels, tops, threads, replies >>'
                  = << user_map, all_channels, tops, threads, replies >>
             /\ wait' = IF last'.retry_after # 0 THEN last'.retry_after
                        ELSE IF last'.ep = "users" THEN backoff
                        ELSE DefaultWait ]_vars

\* C2: an API error other than rate limiting, in whichever fetch, never stops
\* the whole program.
C2_ErrorStopsOnlyTheFetch == last.kind = "error" => pc # "crashed"

RECURSIVE Flatten(_)
Flatten(ss) == IF ss = << >> THEN << >> ELSE Head(ss) \o Flatten(Tail(ss))

\* the items of all the pages the server holds for the running listing
Served == Flatten(srv)

\* C3 as stated: a fetch that ended on a page without next cursor holds exactly
\* the items the API returned over all its pages.
C3_ExactUnion ==
    /\ last = Answer("users", "lastpage", 0)
         => DOMAIN user_map = { u.id : u \in Range(Served) }
    /\ last = Answer("channels", "lastpage", 0)
         => Range(all_channels) = Range(Served)
    /\ last = Answer("history", "lastpage", 0)
         => Range(tops) = Range(Served)
    /\ last = Answer("replies", "lastpage", 0)
         => Range(replies) = Range(Served)

\* the messages of a history page that are exported
KeptOfHistory(m) ==
    /\ m.subtype \in { NoSubtype, "thread_broadcast" }
    /\ StartTs * TicksPerSec <= m.ts
    /\ m.ts <= EndTs * TicksPerSec

\* the pages without their first message each
RECURSIVE WithoutFirsts(_)
WithoutFirsts(pages) ==
    IF pages = << >> THEN << >>
    ELSE SubSeq(Head(pages), 2, Len(Head(pages))) \o WithoutFirsts(Tail(pages))

\* C3 amended: a fetch that ended on a page without next cursor holds, in the
\* order returned, every user (its id mapped to its display name), every
\* channel, every history message with no subtype other than thread_broadcast
\* and a timestamp in the range, and every message of a replies page but the
\* first; and nothing else.
C3_UnionOfKept ==
    /\ last = Answer("users", "lastpage", 0)
         => /\ DOMAIN user_map = { u.id : u \in Range(Served) }
            /\ \A u \in Range(Served) :
                 user_map[u.id] = IF u.real_name # None THEN u.real_name
                                  ELSE IF u.name # None THEN u.name ELSE u.id
    /\ last = Answer("channels", "lastpage", 0)
         => all_channels = Served
    /\ last = Answer("history", "lastpage", 0)
         => /\ tops = SelectSeq(Served, KeptOfHistory)
            /\ returned = Served
    /\ last = Answer("replies", "lastpage", 0)
         => replies = WithoutFirsts(srv)

C3_Witness ==
    /\ last = Answer("history", "lastpage", 0)
    /\ Len(srv) >= 2
    /\ tops # << >>
    /\ Len(tops) < Len(Served)

\* C4: every paginated fetch that was entered returns in the end.
C4_EveryFetchReturns ==
    /\ (pc = "users") ~> (pc = "groups")
    /\ (pc = "channels") ~> (pc = "export")
    /\ (pc = "history") ~> (pc = "threads")
    /\ (pc = "thread") ~> (pc = "threads")

\* a file has been written for the conversation
Written == pc \in { "export", "done" } /\ chIdx > 0

Files == IF save_unresolved THEN { out, outRaw } ELSE { out }

\* C5 as stated: the timestamps of all the lines of a written file, replies
\* included, are non-decreasing in file order.
C5_AllLinesNonDecreasing ==
    Written => \A f \in Files : \A i, j \in 1..Len(f) :
                   i < j => f[i].stamp <= f[j].stamp

\* C5 amended: in a written file the timestamps of the top-level lines are
\* non-decreasing in file order, and so are those of the reply lines between
\* two top-level lines.
C5_TopsAndThreadsNonDecreasing ==
    Written => \A f \in Files : \A i, j \in 1..Len(f) :
        /\ (i < j /\ ~ f[i].reply /\ ~ f[j].reply) => f[i].stamp <= f[j].stamp
        /\ (i < j /\ \A k \in i..j : f[k].reply) => f[i].stamp <= f[j].stamp

C5_Witness ==
    /\ Written
    /\ \E i, j, k \in 1..Len(out) :
         /\ i < j /\ j < k
         /\ ~ out[i].reply /\ out[j].reply /\ ~ out[k].reply
         /\ out[k].stamp < out[j].stamp

\* the timestamps of the thread parents among the exported messages
ParentTs == { m.ts : m \in { x \in Range(tops) : x.thread_ts = x.ts } }

\* the replies attached to the message written at a top-level line
RepliesUnder(line) ==
    IF line.ts \in ParentTs THEN DictGet(threads, line.ts, << >>) ELSE << >>

\* C6: a written file lists the exported top-level messages by ascending
\* timestamp, and directly after the line of each its replies, indented, by
\* ascending timestamp, before the line of the next top-level message.
C6_ThreadLayout ==
    Written => \A f \in Files :
        /\ Len(SelectSeq(f, LAMBDA l : ~ l.reply)) = Len(tops)
        /\ \A m \in Range(tops) : \E i \in 1..Len(f) :
               ~ f[i].reply /\ f[i].ts = m.ts
        /\ \A i, j \in 1..Len(f) :
               (~ f[i].reply /\ ~ f[j].reply /\ f[i].ts < f[j].ts) => i < j
        /\ \A i \in 1..Len(f) : ~ f[i].reply =>
               LET rs == RepliesUnder(f[i])
                   n == Len(rs)
               IN  /\ i + n <= Len(f)
                   /\ \A k \in 1..n : f[i + k].reply
                   /\ { f[i + k].ts : k \in 1..n } = { r.ts : r \in Range(rs) }
                   /\ \A k \in 1..(n - 1) : f[i + k].ts <= f[i + k + 1].ts
                   /\ i + n < Len(f) => ~ f[i + n + 1].reply
        /\ f # << >> => ~ f[1].reply

C6_Witness ==
    /\ Written
    /\ \E i \in 1..Len(out) :
         /\ i + 3 <= Len(out)
         /\ ~ out[i].reply /\ out[i + 1].reply /\ out[i + 2].reply
         /\ ~ out[i + 3].reply
         /\ out[i + 1].ts < out[i + 2].ts

\* C7 as stated: when fetch_channel_structured has returned, every message the
\* history endpoint returned with thread_ts equal to its ts has had its
\* replies fetched and attached under its timestamp.
C7_EveryReturnedParentAttached ==
    pc = "write" =>
        \A m \in Range(returned) : m.thread_ts = m.ts =>
            DictHas(threads, m.ts) /\ m.ts \in Range(fetched)

\* C7 amended: when fetch_channel_structured has returned, every message the
\* history endpoint returned that is exported (no subtype other than
\* thread_broadcast, timestamp in the range) and has thread_ts equal to its ts
\* has had its replies fetched by fetch_thread and attached under its
\* timestamp; no thread is fetched before the history loop has ended.
C7_KeptParentsAttached ==
    /\ pc = "write" =>
         \A m \in Range(returned) : (KeptOfHistory(m) /\ m.thread_ts = m.ts) =>
             DictHas(threads, m.ts) /\ m.ts \in Range(fetched)
    /\ (pc \in { "threads", "write" } /\ thrIdx > 0) =>
         threads[thrIdx] = [ ts |-> fetched[thrIdx], replies |-> replies ]
    /\ pc = "history" => fetched = << >>

C7_Witness ==
    /\ pc = "write"
    /\ fetched # << >>
    /\ \A i \in 1..Len(threads) : threads[i].replies # << >>
    /\ \E m \in Range(returned) : m.thread_ts = m.ts /\ ~ KeptOfHistory(m)

\* C10: no message is written twice to the file of a conversation.
C10_NoMessageTwice ==
    Written => \A i, j \in 1..Len(out) : out[i].ts = out[j].ts => i = j

\* the identifier of a mention token of the given opening, << >> for a text
\* that is no such token: the opening, one atom of heads (when there are
\* any), one or more atoms of [A-Z0-9], and ">"
TokenId(t, opening, heads) ==
    LET n == Len(t)
        o == Len(opening)
    IN  IF /\ n >= o + 2 + (IF heads = {} THEN 0 ELSE 1)
           /\ SubSeq(t, 1, o) = opening
           /\ heads # {} => t[o + 1] \in heads
           /\ \A k \in (o + 1)..(n - 1) : t[k] \in IdChars
           /\ t[n] = ">"
        THEN SubSeq(t, o + 1, n - 1) ELSE << >>

\* the text t is resolved as: what stands before i resolved, then the token
\* at i..j replaced by its raw identifier between open and close, then what
\* stands after j resolved
FallsBack(t, result, i, j, id, open, close) ==
    result = resolve_text(SubSeq(t, 1, i - 1), user_map, group_map)
             \o open \o id \o close
             \o resolve_text(SubSeq(t, j + 1, Len(t)), user_map, group_map)

\* C8: a mention token of any of the three forms whose identifier is in
\* neither map is replaced using the identifier itself as the display name:
\* <@X> by @X, <X> by <X>, <!subteam^X> by @X.
C8_UnknownFallsBack ==
    pc = "resolved" => \A i, j \in 1..Len(txt0) :
        LET tok == SubSeq(txt0, i, j)
            user == TokenId(tok, <<"<", "@">>, { "U", "W" })
            plain == TokenId(tok, <<"<">>, { "U" })
            group == TokenId(tok, <<"<", "!subteam^">>, {})
        IN  /\ (user # << >> /\ user \notin DOMAIN user_map)
                 => FallsBack(txt0, txt, i, j, user, <<"@">>, << >>)
            /\ (plain # << >> /\ plain \notin DOMAIN user_map)
                 => FallsBack(txt0, txt, i, j, plain, <<"<">>, <<">">>)
            /\ (group # << >> /\ group \notin DOMAIN group_map)
                 => FallsBack(txt0, txt, i, j, group, <<"@">>, << >>)

C8_Witness ==
    /\ pc = "resolved"
    /\ txt0 = <<"<", "!subteam^", "U", ">", "1">>
    /\ txt = <<"@", "U", "1">>

\* C9: the backoff of fetch_user_map lies in 10..120; it starts at 10, a
\* rate-limited answer doubles it up to 120 and a page with a next cursor
\* sets it back to 10; the sleep on a rate-limited answer is the Retry-After
\* value when there is one and else the backoff before the doubling.
C9_Backoff ==
    /\ [](backoff >= 10 /\ backoff <= 120)
    /\ [][ /\ pc' = "users" /\ pc = "start" => backoff' = 10
           /\ last' = Answer("users", "page", 0) => backoff' = 10
           /\ (last'.ep = "users" /\ last'.kind = "ratelimited")
                => /\ backoff' = IF backoff * 2 > 120 THEN 120 ELSE backoff * 2
                   /\ wait' = IF last'.retry_after # 0
                                THEN last'.retry_after ELSE backoff ]_vars

C9_Witness == pc = "users" /\ backoff = 120 /\ wait = 80

====
